---- MODULE Spec2Model ----
(***************************************************************************)
(* Scheduled-refresh engine of bizleads: the per-state scheduled scrapers  *)
(* (alabama, texas, michigan, tennessee _scheduler.py), their merge, their *)
(* run-state store, and the multi-state orchestrator.                      *)
(*                                                                         *)
(* Time is counted in ticks of one hour; TicksPerDay ticks make a day.  An  *)
(* ISO timestamp string is modelled as <<day, tick of day>>, a '%Y-%m-%d'  *)
(* date string as the day number (the empty string '' as 0; every real     *)
(* day is >= 1), None as <<>>.                                             *)
(***************************************************************************)
EXTENDS Integers, Sequences, FiniteSets, TLC

\* ------------------------------------------------------------- bounds ---
TicksPerDay == 2
\* First day of the model's clock (later than the 30-day window, so that
\* every registration date is a day >= 1).
EpochDay == 31
\* Number of ticks the clock runs.
MaxTicks == 2
\* --interval, in hours (CONFIG default: 24)
run_interval_hours == 2
\* --count
businesses_per_run == 1
\* --max-total
max_total_businesses == 1

\* ---------------------------------------------------- program constants ---
\* days of the rolling window of the windowed schedulers
WindowDays == 30
\* min(int(random.expovariate(1 / 10)), 30)
MaxDaysAgo == 30
\* time.sleep(3600) of run_forever: one hour, the tick of the clock
BackoffHours == 1

T0 == EpochDay * TicksPerDay
MaxNow == T0 + MaxTicks

Kinds == {"alabama", "texas", "michigan", "tennessee"}

\* ------------------------------------------------------------- values ---
Range(seq) == {seq[i] : i \in 1..Len(seq)}
None == <<>>
IsoFormat(t) == <<t \div TicksPerDay, t % TicksPerDay>>
FromIsoFormat(s) == s[1] * TicksPerDay + s[2]
\* strftime('%Y-%m-%d') of the time t
DateStr(t) == t \div TicksPerDay

\* Names the generators compose (capitalised words), and their lower case.
GenNames == {"Acme", "Bolt"}
Lower(name) ==
    CASE name = "Acme" -> "acme"
      [] name = "acme" -> "acme"
      [] name = "Bolt" -> "bolt"
      [] name = "bolt" -> "bolt"
      [] OTHER -> name

\* days_ago values the model draws (0 .. MaxDaysAgo in the code)
DaysAgoChoices == {0, MaxDaysAgo}

\* f"{base[:3]}-{base[3:6]}-{base[6:]}" of str(100_000_000 + offset), and
\* f"{32000000000 + offset}" (as "32" followed by the nine digits of offset).
EntityNum(k, offset) ==
    IF k = "texas"
    THEN <<32, offset>>
    ELSE LET base == 100000000 + offset
         IN <<base \div 1000000, (base \div 1000) % 1000, base % 1000>>

StateCode(k) ==
    CASE k = "alabama" -> "AL"
      [] k = "texas" -> "TX"
      [] k = "michigan" -> "MI"
      [] k = "tennessee" -> "TN"

\* hashlib.md5(f"{name}_{entity_num}".lower()).hexdigest()[:12]; the digest is
\* modelled as the (injective) pair of its lower-cased inputs.
BizId(name, en) == <<Lower(name), en>>

\* ---------------------------------------------------------- run state ---
StateKeys == {"last_run", "run_count", "total_businesses_generated", "business_ids"}

\* A Python dict with the keys `keys`; ids_is_set tells a set from a list.
DefaultState ==
    [keys |-> StateKeys, last_run |-> None, run_count |-> 0,
     total_businesses_generated |-> 0, business_ids |-> {}, ids_is_set |-> TRUE]

NoState ==
    [keys |-> {}, last_run |-> None, run_count |-> 0,
     total_businesses_generated |-> 0, business_ids |-> {}, ids_is_set |-> FALSE]

Has(st, key) == key \in st.keys

\* json form of a state dict: business_ids becomes a list
StateToJson(st) == [st EXCEPT !.ids_is_set = FALSE]

MissingFile == [kind |-> "missing", val |-> NoState]
CorruptFile == [kind |-> "corrupt", val |-> NoState]
JsonStateFile(v) == [kind |-> "json", val |-> v]

\* texas load_state returns json.load(f) as it is
TexasLoadState(sf) ==
    IF sf.kind = "json" THEN sf.val ELSE DefaultState

\* _load_state: raw['business_ids'] = set(raw.get('business_ids', []))
LoadStateSet(sf) ==
    IF sf.kind = "json"
    THEN [sf.val EXCEPT !.keys = @ \cup {"business_ids"},
                        !.business_ids =
                            IF Has(sf.val, "business_ids") THEN @ ELSE {},
                        !.ids_is_set = TRUE]
    ELSE DefaultState

LoadState(k, sf) == IF k = "texas" THEN TexasLoadState(sf) ELSE LoadStateSet(sf)

\* should_run under config['run_interval_hours'] = interval; the caller has
\* checked that 'last_run' is a key
ShouldRunCfg(interval, st, t) ==
    IF st.last_run = None
    THEN TRUE
    ELSE t - FromIsoFormat(st.last_run) >= interval

\* should_run under the interval of the model
ShouldRun(st, t) == ShouldRunCfg(run_interval_hours, st, t)

\* ------------------------------------------------------------ records ---
NoDate == 0
NoKey == <<>>

Business(k, name, en, reg, t, run) ==
    [name |-> name, state |-> StateCode(k), entity_number |-> en,
     registration_date |-> reg, scraped_at |-> IsoFormat(t),
     generator_run |-> run, business_id |-> BizId(name, en)]

\* -------------------------------------------------------------- merge ---
\* list.sort(key=registration_date, reverse=True): stable, descending
RECURSIVE InsertByDate(_, _)
InsertByDate(b, sorted) ==
    IF sorted = <<>> THEN <<b>>
    ELSE IF Head(sorted).registration_date >= b.registration_date
         THEN <<Head(sorted)>> \o InsertByDate(b, Tail(sorted))
         ELSE <<b>> \o sorted

RECURSIVE SortByDateDesc(_)
SortByDateDesc(s) ==
    IF s = <<>> THEN <<>>
    ELSE InsertByDate(s[Len(s)], SortByDateDesc(SubSeq(s, 1, Len(s) - 1)))

\* a pass that keeps every record that has a key
DedupPassNoSeen(all, seen) ==
    SelectSeq(all, LAMBDA biz : biz.entity_number # NoKey)

\* the seen/unique pass of the capped schedulers:
\*   if en and en not in seen
RECURSIVE DedupPass(_, _)
DedupPass(all, seen) ==
    IF all = <<>> THEN <<>>
    ELSE LET biz == Head(all)
             en == biz.entity_number
         IN IF en # NoKey /\ en \notin seen
            THEN <<biz>> \o DedupPass(Tail(all), seen \cup {en})
            ELSE DedupPass(Tail(all), seen)

\* a pass that dedups and leaves the cutoff out
WindowPassNoCutoff(all, seen, cutoff) == DedupPass(all, seen)

\* the pass of the windowed schedulers:
\*   if en and en not in seen and reg >= cutoff
RECURSIVE WindowPass(_, _, _)
WindowPass(all, seen, cutoff) ==
    IF all = <<>> THEN <<>>
    ELSE LET biz == Head(all)
             en == biz.entity_number
         IN IF en # NoKey /\ en \notin seen /\ biz.registration_date >= cutoff
            THEN <<biz>> \o WindowPass(Tail(all), seen \cup {en}, cutoff)
            ELSE WindowPass(Tail(all), seen, cutoff)

Cap(unique, cap) ==
    IF cap # 0 /\ Len(unique) > cap THEN SubSeq(unique, 1, cap) ELSE unique

\* a merge that keeps every record that has a key
MergeCappedNoSeen(existing, new, cap) ==
    Cap(SortByDateDesc(SelectSeq(existing \o new,
                                 LAMBDA biz : biz.entity_number # NoKey)), cap)

\* AlabamaScheduledScraper._merge / TexasScheduledScraper.merge_businesses
MergeCapped(existing, new, cap) ==
    Cap(SortByDateDesc(DedupPass(existing \o new, {})), cap)

\* a windowed merge that keeps every record in the window that has a key
MergeWindowedNoSeen(existing, new, t) ==
    SortByDateDesc(SelectSeq(existing \o new,
        LAMBDA biz : /\ biz.entity_number # NoKey
                     /\ biz.registration_date >= DateStr(t) - WindowDays))

\* MichiganScheduledScraper._merge / TennesseeScheduledScraper._merge
MergeWindowed(existing, new, t) ==
    SortByDateDesc(WindowPass(existing \o new, {}, DateStr(t) - WindowDays))

Windowed(k) == k \in {"michigan", "tennessee"}

\* a merge that stamps the records it returns with the time of the merge
MergeRestamped(k, cap, existing, new, t) ==
    LET out == IF Windowed(k)
               THEN MergeWindowed(existing, new, t)
               ELSE MergeCapped(existing, new, cap)
    IN [i \in 1..Len(out) |-> [out[i] EXCEPT !.scraped_at = IsoFormat(t)]]

\* the _merge of scheduler k; cap is config.get('max_total_businesses'), which
\* the windowed schedulers do not read
Merge(k, cap, existing, new, t) ==
    IF Windowed(k)
    THEN MergeWindowed(existing, new, t)
    ELSE MergeCapped(existing, new, cap)

Keys(recs) == {recs[i].entity_number : i \in 1..Len(recs)}
NoDupKeys(recs) ==
    \A i, j \in 1..Len(recs) :
        recs[i].entity_number = recs[j].entity_number => i = j

\* ------------------------------------------- generation (one iteration) ---
MaxAttemptsFactor(k) == IF Windowed(k) THEN 2 ELSE 3

\* The loop body with the id recorded in self.state before the record is built.
GenIterAddFirst(k, s, bizs, name, days_ago, t, tday) ==
    LET raise == [st |-> s, businesses |-> bizs, raised |-> TRUE]
    IN IF ~Has(s, "total_businesses_generated") THEN raise
       ELSE LET en == EntityNum(k, s.total_businesses_generated + Len(bizs))
                bid == BizId(name, en)
            IN IF ~Has(s, "business_ids") THEN raise
               ELSE IF bid \in s.business_ids
               THEN [st |-> s, businesses |-> bizs, raised |-> FALSE]
               ELSE IF ~s.ids_is_set THEN raise
               ELSE LET s1 == [s EXCEPT !.business_ids = @ \cup {bid}]
                    IN IF ~Has(s, "run_count")
                       THEN [st |-> s1, businesses |-> bizs, raised |-> TRUE]
                       ELSE [st |-> s1,
                             businesses |->
                                 Append(bizs, Business(k, name, en,
                                     DateStr(tday) - days_ago, t, s.run_count + 1)),
                             raised |-> FALSE]

\* One pass of the body of the generation loop, after `attempts += 1` and the
\* random draws: the state dict and the list it leaves, and whether it raised
\* (KeyError on a missing key, AttributeError on list.add).
GenIter(k, s, bizs, name, days_ago, t, tday) ==
    LET raise == [st |-> s, businesses |-> bizs, raised |-> TRUE]
    IN IF ~Has(s, "total_businesses_generated") THEN raise
       ELSE LET en == EntityNum(k, s.total_businesses_generated + Len(bizs))
                bid == BizId(name, en)
            IN IF ~Has(s, "business_ids") THEN raise
               ELSE IF bid \in s.business_ids
               THEN [st |-> s, businesses |-> bizs, raised |-> FALSE]
               ELSE IF ~Has(s, "run_count") THEN raise
               ELSE LET biz == Business(k, name, en, DateStr(tday) - days_ago,
                                        t, s.run_count + 1)
                    IN IF ~s.ids_is_set
                       THEN [st |-> s, businesses |-> Append(bizs, biz),
                             raised |-> TRUE]
                       ELSE [st |-> [s EXCEPT !.business_ids = @ \cup {bid}],
                             businesses |-> Append(bizs, biz),
                             raised |-> FALSE]

\* ----------------------------------------------------------- data file ---
MissingData == [kind |-> "missing", recs |-> <<>>]
PartialData == [kind |-> "partial", recs |-> <<>>]
JsonData(recs) == [kind |-> "json", recs |-> recs]

\* _load_existing / load_existing_businesses
LoadExisting(df) == IF df.kind = "json" THEN df.recs ELSE <<>>

\* ------------------------------------ the dedup of reset_and_refresh ---
\* a < b for two ISO timestamp strings
IsoBefore(a, b) == a[1] < b[1] \/ (a[1] = b[1] /\ a[2] < b[2])

\* a list left in the order it has
KeepOrder(s) == s

\* list.sort(key=scraped_at, reverse=True): stable, descending
RECURSIVE InsertByScraped(_, _)
InsertByScraped(b, sorted) ==
    IF sorted = <<>> THEN <<b>>
    ELSE IF ~IsoBefore(Head(sorted).scraped_at, b.scraped_at)
         THEN <<Head(sorted)>> \o InsertByScraped(b, Tail(sorted))
         ELSE <<b>> \o sorted

RECURSIVE SortByScrapedDesc(_)
SortByScrapedDesc(s) ==
    IF s = <<>> THEN <<>>
    ELSE InsertByScraped(s[Len(s)], SortByScrapedDesc(SubSeq(s, 1, Len(s) - 1)))

\* key = biz.get("entity_number") or biz.get("business_id")
\*       or biz.get("name", ""), with the field it was taken from
AnyKey(biz) ==
    IF biz.entity_number # NoKey
    THEN <<"entity_number", biz.entity_number>>
    ELSE IF biz.business_id # NoKey
         THEN <<"business_id", biz.business_id>>
         ELSE <<"name", biz.name>>

\* the truth value of a key
Truthy(key) == key # <<"name", "">>

\* the seen/unique pass of reset_and_refresh:  if key and key not in seen
RECURSIVE KeyPass(_, _)
KeyPass(all, seen) ==
    IF all = <<>> THEN <<>>
    ELSE LET biz == Head(all)
             key == AnyKey(biz)
         IN IF Truthy(key) /\ key \notin seen
            THEN <<biz>> \o KeyPass(Tail(all), seen \cup {key})
            ELSE KeyPass(Tail(all), seen)

\* sort newest-scraped-first, keep the first record of each key, sort by
\* registration_date
Unique(all) ==
    SortByDateDesc(KeyPass(SortByScrapedDesc(all), {}))

\* deduplicate_file: the file it leaves (it is rewritten only when records
\* were removed)
DeduplicateFile(df) ==
    IF df.kind # "json" THEN df
    ELSE IF Len(df.recs) - Len(Unique(df.recs)) > 0
         THEN JsonData(Unique(df.recs))
         ELSE df

\* ============================================================ scheduler ===
\* the variables of the merge applied as a function
VARIABLES
    mKind,       \* the scheduler whose merge is applied
    mCap,        \* its max_total_businesses (0: --max-total 0, no cap)
    mNow,        \* the time of the merge
    mExisting,   \* the list loaded from the data file
    mIncoming,   \* the new list
    mOut,        \* the merged list
    mDone,       \* whether the merge has been applied
    mRound,      \* the number of merges applied so far
    mDedup,      \* the file deduplicate_file leaves of the same lists
    mMain        \* the list rebuild_main_businesses makes of them

mergeVars == <<mKind, mCap, mNow, mExisting, mIncoming, mOut, mDone, mRound,
               mDedup, mMain>>

\* the variables of the orchestrators
VARIABLES
    oKind,       \* which orchestrator
    oCfg,        \* per source: enabled, delay_minutes, whether the script exists
    oDry,        \* reset_and_refresh --dry-run
    oPc,         \* "idle", "call", "wait", "spawn", "child", "report", "done",
                 \* "aborted" (an exception left the per-source call)
    oIdx,        \* the source the loop is at
    oElapsed,    \* seconds the current child has been running
    oResults,    \* the values returned by the per-source calls so far
    oHow,        \* how each per-source call ended
    oInvoked,    \* the sources for which subprocess.run was called
    oLastRun,    \* whether self.last_run has been set
    oLastRunAt,  \* self.last_run, in seconds since the start of the cycle
                 \* that set it (it is not read before it is set again)
    oWaited,     \* the sources whose stagger sleep was made
    oWritten,    \* the files the children of this cycle may have written
    oSlept,      \* seconds slept before sources in this cycle
    oRan,        \* seconds the children of this cycle have run
    oReport,     \* the counts of the summary
    oGap         \* seconds between the starts of two cycles (0: unknown)

orchVars == <<oKind, oCfg, oDry, oPc, oIdx, oElapsed, oResults, oHow, oInvoked,
              oLastRun, oLastRunAt, oWaited, oWritten, oSlept, oRan, oReport,
              oGap>>

\* the variables of the sources run side by side
VARIABLES
    sNow,        \* the time of the next run
    sData,       \* the data files, by name
    sState,      \* the state files, by name
    sWriters,    \* per data file, the schedulers that have written it
    sPrevData,   \* the data files before the last run
    sPrevState,  \* the state files before the last run
    sRan,        \* the scheduler of the last run
    sRuns,       \* the number of runs so far
    sAgg,        \* whether the last step was the aggregate export
    sProduced,   \* per scheduler, the entity numbers its runs have produced
    sInterval,   \* the --interval of the last run
    sDry,        \* whether the last step was reset_and_refresh --dry-run
    sStarted     \* the scheduler scripts the last step started

shareVars == <<sNow, sData, sState, sWriters, sPrevData, sPrevState, sRan,
               sRuns, sAgg, sProduced, sInterval, sDry, sStarted>>

\* the variables of one safe_get or safe_post call
VARIABLES
    nPc,         \* "idle", "loop" in the retry loop, "done" after the call
    nMethod,     \* "get" or "post"
    nRetries,    \* the retries argument
    nAttempt,    \* the loop variable attempt
    nAnswers,    \* what each request issued so far was answered with
    nSleeps,     \* the sleeps of the call, in order
    nReturn,     \* 0 for None, i for the response of the i-th request
    nEscaped     \* whether an exception left the call

netVars == <<nPc, nMethod, nRetries, nAttempt, nAnswers, nSleeps, nReturn,
             nEscaped>>

\* the variables of one run of super_scraper.main
VARIABLES
    uPc,         \* "idle", "loop" over the states, "done" after the report
    uIdx,        \* the number of states processed so far
    uStats,      \* the counters of stats
    uFound,      \* len(businesses) of the state processed last
    uHow,        \* how scrape_state of the state processed last ended
    uRaised      \* the states whose scrape raised other than a missing module

superVars == <<uPc, uIdx, uStats, uFound, uHow, uRaised>>

scrapeVars == <<netVars, superVars>>

\* what a scheduler process leaves alone
notSched == <<mergeVars, orchVars, shareVars, scrapeVars>>

\* the variables of a scheduler process
VARIABLES
    kind,        \* which scheduler script runs
    now,         \* the clock, in ticks
    dataFile,    \* CONFIG['data_file'] on disk
    stateFile,   \* CONFIG['state_file'] on disk
    pc,          \* position of the process ("off": no process)
    mode,        \* "once" (--once) or "forever"
    st,          \* self.state
    businesses,  \* the list being generated, then new_biz
    attempts,    \* attempts of the generation loop
    today,       \* today = datetime.now() of the generation
    merged,      \* merged / all_businesses
    wake,        \* end of the current time.sleep
    outcome,     \* how the last run_once ended
    errAt,       \* where the last exception was raised or the process died
    pre,         \* disk and memory at the start of the current run_once
    wrote,       \* files opened and written by the current run_once
    loaded,      \* what the constructor found in the state file
    earlyRuns,   \* runs made although the source was not due
    lastWrite    \* when this process last wrote the data file (0: never)

schedVars == <<kind, now, dataFile, stateFile, pc, mode, st, businesses,
               attempts, today, merged, wake, outcome, errAt, pre, wrote,
               loaded, earlyRuns, lastWrite>>

NoPre == [data |-> MissingData, state |-> MissingFile, mem |-> NoState,
          due |-> FALSE, at |-> 0]

\* what the constructor finds on disk
FileClass(sf) ==
    CASE sf.kind = "missing" -> "missing"
      [] sf.kind = "corrupt" -> "corrupt"
      [] sf.kind = "json" /\ sf.val.keys # StateKeys -> "lacking"
      [] OTHER -> "full"

\* a json state file with only the keys ks, each with its zero value
ZeroJson(ks) == JsonStateFile([DefaultState EXCEPT !.keys = ks, !.ids_is_set = FALSE])

\* key sets of the state files the model starts from: the full dict, the
\* empty dict, and dicts that lack one key
InitKeySets ==
    {StateKeys, {}, StateKeys \ {"run_count"}, StateKeys \ {"business_ids"}}

InitStateFiles ==
    {MissingFile, CorruptFile} \cup {ZeroJson(ks) : ks \in InitKeySets}

SchedInit ==
    /\ kind \in Kinds
    /\ now = T0
    /\ dataFile = MissingData
    /\ stateFile \in InitStateFiles
    /\ pc = "off"
    /\ mode = "none"
    /\ st = NoState
    /\ businesses = <<>>
    /\ attempts = 0
    /\ today = 0
    /\ merged = <<>>
    /\ wake = 0
    /\ outcome = "none"
    /\ errAt = "none"
    /\ pre = NoPre
    /\ wrote = {}
    /\ loaded = "none"
    /\ earlyRuns = 0
    /\ lastWrite = 0

locals == <<businesses, attempts, today, merged>>
disk == <<dataFile, stateFile>>
ResetLocals ==
    /\ businesses' = <<>>
    /\ attempts' = 0
    /\ today' = 0
    /\ merged' = <<>>

\* main(): the constructor loads the state, then run_once or run_forever
Start(m) ==
    /\ pc = "off"
    /\ pc' = "run_once"
    /\ mode' = m
    /\ st' = LoadState(kind, stateFile)
    /\ loaded' = FileClass(stateFile)
    /\ outcome' = "none"
    /\ errAt' = "none"
    /\ pre' = NoPre
    /\ wrote' = {}
    /\ wake' = 0
    /\ ResetLocals
    /\ lastWrite' = 0
    /\ UNCHANGED <<notSched, earlyRuns, kind, now, disk>>

\* an exception leaves run_once: run_forever logs it and sleeps an hour,
\* with --once the process ends with a traceback
Raised(at) ==
    /\ outcome' = "error"
    /\ errAt' = at
    /\ IF mode = "forever"
       THEN pc' = "sleep" /\ wake' = now + BackoffHours
       ELSE pc' = "exit" /\ wake' = 0

\* run_once returns
Returned(how) ==
    /\ outcome' = how
    /\ errAt' = "none"
    /\ pc' = IF mode = "forever" THEN "after" ELSE "exit"
    /\ wake' = 0

\* bound on the runs made although the source is not due (tennessee has no
\* due-check)
MaxEarlyRuns == 1

\* "not due" in the sense of the due-check: last_run is set and less than
\* the interval ago
NotDue(s, t) ==
    /\ Has(s, "last_run")
    /\ s.last_run # None
    /\ t - FromIsoFormat(s.last_run) < run_interval_hours

\* whether run_once of kind k passes should_run (tennessee's run_once has no
\* such check); "raise" is the KeyError of self.state['last_run']
DueCheckCfg(interval, k, s, t) ==
    CASE k = "tennessee" -> "run"
      [] ~Has(s, "last_run") -> "raise"
      [] ~ShouldRunCfg(interval, s, t) -> "skip"
      [] OTHER -> "run"

\* the due-check under the interval of the model
DueCheck(k, s, t) == DueCheckCfg(run_interval_hours, k, s, t)

\* run_once, up to the start of the generation
RunOnceBegin ==
    /\ pc = "run_once"
    /\ LET early == DueCheck(kind, st, now) = "run" /\ NotDue(st, now)
       IN /\ early => earlyRuns < MaxEarlyRuns
          /\ earlyRuns' = IF early THEN earlyRuns + 1 ELSE earlyRuns
    /\ pre' = [data |-> dataFile, state |-> stateFile, mem |-> st,
               due |-> ~NotDue(st, now), at |-> now]
    /\ wrote' = {}
    /\ loaded' = IF outcome = "none" THEN loaded ELSE "none"
    /\ businesses' = <<>>
    /\ attempts' = 0
    /\ merged' = <<>>
    /\ LET c == DueCheck(kind, st, now)
       IN CASE c = "raise" -> Raised("should_run") /\ today' = 0
            [] c = "skip" -> Returned("skipped") /\ today' = 0
            [] OTHER -> /\ pc' = "gen"
                        /\ today' = now
                        /\ outcome' = "none"
                        /\ errAt' = "none"
                        /\ wake' = 0
    /\ UNCHANGED <<notSched, lastWrite, kind, now, disk, mode, st>>

\* one iteration of the while loop of generate_*_businesses, or its exit
GenStep ==
    /\ pc = "gen"
    /\ IF /\ Len(businesses) < businesses_per_run
          /\ attempts < businesses_per_run * MaxAttemptsFactor(kind)
       THEN \E name \in GenNames, days_ago \in DaysAgoChoices :
               LET r == GenIter(kind, st, businesses, name, days_ago, now, today)
               IN /\ st' = r.st
                  /\ IF r.raised
                     THEN Raised("generate") /\ ResetLocals
                     ELSE /\ businesses' = r.businesses
                          /\ attempts' = attempts + 1
                          /\ UNCHANGED <<pc, today, merged, wake, outcome,
                                         errAt>>
       ELSE /\ pc' = "load"
            /\ UNCHANGED <<st, locals, wake, outcome, errAt>>
    /\ UNCHANGED <<notSched, lastWrite, earlyRuns, kind, now, disk, mode, pre, wrote,
                   loaded>>

\* existing = self._load_existing(); merged = self._merge(existing, new_biz)
LoadMerge ==
    /\ pc = "load"
    /\ merged' = Merge(kind, max_total_businesses, LoadExisting(dataFile),
                       businesses, now)
    /\ pc' = "save_open"
    /\ UNCHANGED <<notSched, lastWrite, earlyRuns, kind, now, disk, mode, st, businesses,
                   attempts, today,
                   wake, outcome, errAt, pre, wrote, loaded>>

\* _save_businesses: open(df, 'w') truncates the file
SaveOpen ==
    /\ pc = "save_open"
    /\ dataFile' = PartialData
    /\ wrote' = wrote \cup {"data_open"}
    /\ pc' = "save_write"
    /\ UNCHANGED <<notSched, lastWrite, earlyRuns, kind, now, stateFile, mode, st, locals,
                   wake, outcome,
                   errAt, pre, loaded>>

\* ... or raises OSError
SaveOpenFails ==
    /\ pc = "save_open"
    /\ Raised("oserror_data")
    /\ ResetLocals
    /\ UNCHANGED <<notSched, lastWrite, earlyRuns, kind, now, disk, mode, st, pre, wrote,
                   loaded>>

\* _save_businesses: json.dump writes the list
SaveWrite ==
    /\ pc = "save_write"
    /\ dataFile' = JsonData(merged)
    /\ wrote' = wrote \cup {"data"}
    /\ lastWrite' = now
    /\ pc' = "update"
    /\ UNCHANGED <<notSched, earlyRuns, kind, now, stateFile, mode, st, locals,
                   wake, outcome,
                   errAt, pre, loaded>>

\* the assignments without the one to total_businesses_generated
StateUpdateKeepTotal(s, t, n) ==
    LET s1 == [s EXCEPT !.last_run = IsoFormat(t), !.keys = @ \cup {"last_run"}]
        s2 == [s1 EXCEPT !.run_count = @ + 1]
    IN IF ~Has(s1, "run_count") THEN [st |-> s1, raised |-> TRUE]
       ELSE [st |-> s2, raised |-> FALSE]

\* the three assignments to self.state after the save, as far as they get
StateUpdate(s, t, n) ==
    LET s1 == [s EXCEPT !.last_run = IsoFormat(t), !.keys = @ \cup {"last_run"}]
        s2 == [s1 EXCEPT !.run_count = @ + 1]
        s3 == [s2 EXCEPT !.total_businesses_generated = @ + n]
    IN IF ~Has(s1, "run_count") THEN [st |-> s1, raised |-> TRUE]
       ELSE IF ~Has(s2, "total_businesses_generated")
       THEN [st |-> s2, raised |-> TRUE]
       ELSE [st |-> s3, raised |-> FALSE]

UpdateState ==
    /\ pc = "update"
    /\ LET r == StateUpdate(st, now, Len(businesses))
       IN /\ st' = r.st
          /\ IF r.raised
             THEN Raised("update") /\ ResetLocals
             ELSE /\ pc' = "state_open"
                  /\ UNCHANGED <<locals, wake, outcome, errAt>>
    /\ UNCHANGED <<notSched, lastWrite, earlyRuns, kind, now, disk, mode, pre, wrote,
                   loaded>>

\* _save_state: the copy with list(business_ids), then open(sf, 'w')
StateOpen ==
    /\ pc = "state_open"
    /\ IF ~Has(st, "business_ids")
       THEN Raised("save_state") /\ ResetLocals /\ UNCHANGED <<stateFile,
                                                               wrote>>
       ELSE /\ stateFile' = CorruptFile
            /\ wrote' = wrote \cup {"state_open"}
            /\ pc' = "state_write"
            /\ UNCHANGED <<locals, wake, outcome, errAt>>
    /\ UNCHANGED <<notSched, lastWrite, earlyRuns, kind, now, dataFile, mode, st, pre,
                   loaded>>

\* ... or open raises OSError
StateOpenFails ==
    /\ pc = "state_open"
    /\ Raised("oserror_state")
    /\ ResetLocals
    /\ UNCHANGED <<notSched, lastWrite, earlyRuns, kind, now, disk, mode, st, pre, wrote,
                   loaded>>

\* _save_state: json.dump writes the state; run_once logs and returns
StateWrite ==
    /\ pc = "state_write"
    /\ stateFile' = JsonStateFile(StateToJson(st))
    /\ wrote' = wrote \cup {"state"}
    /\ Returned("ok")
    /\ UNCHANGED <<notSched, lastWrite, earlyRuns, kind, now, dataFile, mode, st, locals,
                   pre, loaded>>

\* run_forever after run_once: sleep until last_run + interval
AfterRun ==
    /\ pc = "after"
    /\ ResetLocals
    /\ IF ~Has(st, "last_run")
       THEN Raised("run_forever")
       ELSE /\ UNCHANGED <<outcome, errAt>>
            /\ IF st.last_run # None
               THEN LET nxt == FromIsoFormat(st.last_run) + run_interval_hours
                    IN IF nxt - now > 0
                       THEN pc' = "sleep" /\ wake' = nxt
                       ELSE pc' = "run_once" /\ wake' = 0
               ELSE pc' = "sleep" /\ wake' = now + run_interval_hours
    /\ UNCHANGED <<notSched, lastWrite, earlyRuns, kind, now, disk, mode, st, pre, wrote,
                   loaded>>

\* time.sleep returns
Wake ==
    /\ pc = "sleep"
    /\ now >= wake
    /\ pc' = "run_once"
    /\ wake' = 0
    /\ UNCHANGED <<notSched, lastWrite, earlyRuns, kind, now, disk, mode, st, locals,
                   outcome, errAt, pre,
                   wrote, loaded>>

\* the --once process ends
Exit ==
    /\ pc = "exit"
    /\ pc' = "off"
    /\ mode' = "none"
    /\ st' = NoState
    /\ ResetLocals
    /\ pre' = NoPre
    /\ loaded' = "none"
    /\ UNCHANGED <<notSched, lastWrite, earlyRuns, kind, now, disk, wake,
                   outcome, errAt, wrote>>

\* the process dies (crash, kill on the orchestrator's timeout)
Crash ==
    /\ pc \notin {"off", "exit"}
    /\ pc' = "off"
    /\ mode' = "none"
    /\ st' = NoState
    /\ ResetLocals
    /\ wake' = 0
    /\ outcome' = "crashed"
    /\ errAt' = pc
    /\ loaded' = "none"
    /\ UNCHANGED <<notSched, lastWrite, earlyRuns, kind, now, disk, pre, wrote>>

\* a KeyboardInterrupt that the loop takes for an error and goes on
InterruptIgnored ==
    /\ pc = "sleep"
    /\ mode = "forever"
    /\ pc' = "run_once"
    /\ wake' = 0
    /\ outcome' = "interrupted"
    /\ errAt' = IF outcome = "error" THEN "backoff" ELSE "sleep"
    /\ UNCHANGED <<notSched, lastWrite, earlyRuns, kind, now, disk, mode, st, locals, pre,
                   wrote, loaded>>

\* KeyboardInterrupt in a time.sleep of run_forever: in the sleep between
\* two runs it is caught and the loop breaks; in the sleep of the
\* `except Exception` handler it is not caught and leaves run_forever.
\* Either way main returns and the process ends.
Interrupt ==
    /\ pc = "sleep"
    /\ mode = "forever"
    /\ pc' = "off"
    /\ mode' = "none"
    /\ st' = NoState
    /\ ResetLocals
    /\ wake' = 0
    /\ outcome' = "interrupted"
    /\ errAt' = IF outcome = "error" THEN "backoff" ELSE "sleep"
    /\ loaded' = "none"
    /\ UNCHANGED <<notSched, lastWrite, earlyRuns, kind, now, disk, pre, wrote>>

\* the clock advances; the model lets it do so before each step that reads
\* it (a tick before any other step commutes with that step)
ClockRead == {"off", "sleep", "run_once", "gen", "load", "update", "after"}

Tick ==
    /\ now < MaxNow
    /\ pc \in ClockRead
    /\ now' = now + 1
    /\ UNCHANGED <<notSched, lastWrite, earlyRuns, kind, disk, pc, mode, st, locals, wake,
                   outcome, errAt,
                   pre, wrote, loaded>>

SchedNext ==
    \/ \E m \in {"once", "forever"} : Start(m)
    \/ RunOnceBegin
    \/ GenStep
    \/ LoadMerge
    \/ SaveOpen
    \/ SaveOpenFails
    \/ SaveWrite
    \/ UpdateState
    \/ StateOpen
    \/ StateOpenFails
    \/ StateWrite
    \/ AfterRun
    \/ Wake
    \/ Exit
    \/ Crash
    \/ Interrupt
    \/ Tick

\* no scheduler process: the scheduler's variables in the other specifications
SchedIdle ==
    /\ kind = "alabama"
    /\ now = T0
    /\ dataFile = MissingData
    /\ stateFile = MissingFile
    /\ pc = "off"
    /\ mode = "none"
    /\ st = NoState
    /\ businesses = <<>>
    /\ attempts = 0
    /\ today = 0
    /\ merged = <<>>
    /\ wake = 0
    /\ outcome = "none"
    /\ errAt = "none"
    /\ pre = NoPre
    /\ wrote = {}
    /\ loaded = "none"
    /\ earlyRuns = 0
    /\ lastWrite = 0

\* ================================================ merge as a function ===
\* longest input list of the merge
MaxLen == 2
\* longest sequence of merges
MaxMerges == 2

\* the records the inputs are drawn from: two keys and no key, two times of
\* scraping, a registration day that has left the window and one inside it
PoolKeys == {EntityNum("alabama", 0), EntityNum("alabama", 1), NoKey}
PoolScraped == {IsoFormat(T0), IsoFormat(T0 + 1)}
PoolDates == {EpochDay - WindowDays, EpochDay}
Pool ==
    {[name |-> "Acme", state |-> "AL", entity_number |-> en,
      registration_date |-> reg, scraped_at |-> sc, generator_run |-> 1,
      business_id |-> BizId("Acme", en)] :
        en \in PoolKeys, reg \in PoolDates, sc \in PoolScraped}

Lists == UNION {[1..n -> Pool] : n \in 0..MaxLen}

MergeIdle ==
    /\ mKind = "alabama"
    /\ mCap = 0
    /\ mNow = T0
    /\ mExisting = <<>>
    /\ mIncoming = <<>>
    /\ mOut = <<>>
    /\ mDone = FALSE
    /\ mRound = 0
    /\ mDedup = MissingData
    /\ mMain = <<>>

MergeInit ==
    /\ mKind \in Kinds
    /\ mCap \in {0, max_total_businesses}
    /\ mNow \in {T0, T0 + TicksPerDay}
    /\ mExisting \in Lists
    /\ mIncoming \in Lists
    /\ mOut = <<>>
    /\ mDone = FALSE
    /\ mRound = 0
    /\ mDedup = MissingData
    /\ mMain = <<>>

ApplyMerge ==
    /\ ~mDone
    /\ mOut' = Merge(mKind, mCap, mExisting, mIncoming, mNow)
    /\ mDone' = TRUE
    /\ mRound' = mRound + 1
    /\ mDedup' = DeduplicateFile(JsonData(mExisting \o mIncoming))
    /\ mMain' = Unique(mExisting \o mIncoming)
    /\ UNCHANGED <<scrapeVars, shareVars, schedVars, orchVars, mKind, mCap, mNow, mExisting,
                   mIncoming>>

\* the next run, a day later: the list that was saved is the existing list,
\* and the incoming list is empty or holds one record, scraped last
MergeAgain ==
    /\ mDone
    /\ mRound < MaxMerges
    /\ mExisting' = mOut
    /\ mIncoming' \in {<<>>} \cup
           {<<r>> : r \in {q \in Pool : q.scraped_at = IsoFormat(T0 + 1)}}
    /\ mNow' = mNow + TicksPerDay
    /\ mOut' = <<>>
    /\ mDedup' = MissingData
    /\ mMain' = <<>>
    /\ mDone' = FALSE
    /\ UNCHANGED <<scrapeVars, shareVars, schedVars, orchVars, mKind, mCap, mRound>>

MergeNext ==
    \/ ApplyMerge
    \/ MergeAgain

\* ==================================================== the orchestrators ===
\* MultiStateScheduler.run_once ("multi") and reset_and_refresh's
\* run_all_scrapers ("reset"): one child process per source, in order.
\* number of sources of a cycle
NumSources == 3
\* seconds of child run time per step of the model
ChildStep == 150
\* the delay_minutes a source is given (0: none)
DelayChoices == {0, 5, 10}

\* the "script" of each entry of CONFIG["states"] of the multi-state
\* scheduler, in the order of the dict
ConfigScripts ==
    <<"alaska_scheduler.py", "arizona_scheduler.py",
      "arkansas_scheduler.py", "california_scheduler.py",
      "colorado_scheduler.py", "connecticut_scheduler.py",
      "delaware_scheduler.py", "florida_scheduler.py",
      "georgia_scheduler.py", "hawaii_scheduler.py", "idaho_scheduler.py",
      "illinois_scheduler.py", "indiana_scheduler.py", "iowa_scheduler.py",
      "kansas_scheduler.py", "kentucky_scheduler.py",
      "louisiana_scheduler.py", "maine_scheduler.py",
      "maryland_scheduler.py", "massachusetts_scheduler.py",
      "michigan_scheduler.py", "minnesota_scheduler.py",
      "mississippi_scheduler.py", "missouri_scheduler.py",
      "montana_scheduler.py", "nebraska_scheduler.py",
      "nevada_scheduler.py", "new_hampshire_scheduler.py",
      "new_jersey_scheduler.py", "new_mexico_scheduler.py",
      "new_york_scheduler.py", "north_carolina_scheduler.py",
      "north_dakota_scheduler.py", "ohio_scheduler.py",
      "oklahoma_scheduler.py", "oregon_scheduler.py",
      "pennsylvania_scheduler.py", "rhode_island_scheduler.py",
      "south_carolina_scheduler.py", "south_dakota_scheduler.py",
      "tennessee_scheduler.py", "texas_scheduler.py", "utah_scheduler.py",
      "vermont_scheduler.py", "virginia_scheduler.py",
      "washington_scheduler.py", "west_virginia_scheduler.py",
      "wisconsin_scheduler.py", "wyoming_scheduler.py">>

\* STATE_SCHEDULERS of reset_and_refresh
STATE_SCHEDULERS ==
    <<"alabama_scheduler.py", "alaska_scheduler.py", "arizona_scheduler.py",
      "arkansas_scheduler.py", "california_scheduler.py",
      "colorado_scheduler.py", "connecticut_scheduler.py",
      "delaware_scheduler.py", "florida_scheduler.py",
      "georgia_scheduler.py", "hawaii_scheduler.py", "idaho_scheduler.py",
      "illinois_scheduler.py", "indiana_scheduler.py", "iowa_scheduler.py",
      "kansas_scheduler.py", "kentucky_scheduler.py",
      "louisiana_scheduler.py", "maine_scheduler.py",
      "maryland_scheduler.py", "massachusetts_scheduler.py",
      "michigan_scheduler.py", "minnesota_scheduler.py",
      "mississippi_scheduler.py", "missouri_scheduler.py",
      "montana_scheduler.py", "nebraska_scheduler.py",
      "nevada_scheduler.py", "new_hampshire_scheduler.py",
      "new_jersey_scheduler.py", "new_mexico_scheduler.py",
      "new_york_scheduler.py", "north_carolina_scheduler.py",
      "north_dakota_scheduler.py", "ohio_scheduler.py",
      "oklahoma_scheduler.py", "oregon_scheduler.py",
      "pennsylvania_scheduler.py", "rhode_island_scheduler.py",
      "south_carolina_scheduler.py", "south_dakota_scheduler.py",
      "tennessee_scheduler.py", "texas_scheduler.py", "utah_scheduler.py",
      "vermont_scheduler.py", "virginia_scheduler.py",
      "washington_scheduler.py", "west_virginia_scheduler.py",
      "wisconsin_scheduler.py", "wyoming_scheduler.py">>

\* the script of source i of orchestrator k
ScriptOf(k, i) == IF k = "multi" THEN ConfigScripts[i] ELSE STATE_SCHEDULERS[i]

\* timeout= of subprocess.run, in seconds
Timeout(k) == IF k = "multi" THEN 300 ELSE 120
\* the model follows a child for one step longer than the longest timeout
MaxChildSeconds == 300 + ChildStep

NeverTimedOut(k, elapsed) == FALSE
\* subprocess.run raises TimeoutExpired once the timeout has passed
TimedOut(k, elapsed) == elapsed >= Timeout(k)

RunResultNoCatch(how) ==
    CASE how = "ok" -> [raises |-> FALSE, value |-> TRUE]
      [] how = "skipped" -> [raises |-> FALSE, value |-> TRUE]
      [] how = "nonzero" -> [raises |-> FALSE, value |-> FALSE]
      [] OTHER -> [raises |-> TRUE, value |-> FALSE]
\* what the per-source call does with the way subprocess.run ended: the
\* return code decides (0 also when the child found its source not due), and
\* both except clauses return False
RunResult(how) ==
    CASE how = "ok" -> [raises |-> FALSE, value |-> TRUE]
      [] how = "skipped" -> [raises |-> FALSE, value |-> TRUE]
      [] how = "nonzero" -> [raises |-> FALSE, value |-> FALSE]
      [] how = "timeout" -> [raises |-> FALSE, value |-> FALSE]
      [] how = "error" -> [raises |-> FALSE, value |-> FALSE]

AlwaysEnabled(k, c) == TRUE
\* state_config.get("enabled", True); reset_and_refresh has no such flag
IsEnabled(k, c) == k = "multi" => c.enabled

\* the data file and the state file named in the CONFIG of the scheduler
\* script of source i.  The scripts listed by the multi-state CONFIG name
\* files of their own; reset_and_refresh's list begins with alabama, whose
\* data file is the data/businesses.json of texas (<<"data", 0>>).
SourceFiles(k, i) ==
    IF k = "reset" /\ i = 1
    THEN {<<"data", 0>>, <<"state", i>>}
    ELSE {<<"data", i>>, <<"state", i>>}

SourceCfgs == [enabled : BOOLEAN, delay_minutes : DelayChoices, exists : BOOLEAN]

NoReport == [total |-> 0, successful |-> 0, failed |-> 0]

OrchIdle ==
    /\ oKind = "multi"
    /\ oCfg = <<>>
    /\ oDry = FALSE
    /\ oPc = "idle"
    /\ oIdx = 0
    /\ oElapsed = 0
    /\ oResults = <<>>
    /\ oHow = <<>>
    /\ oInvoked = {}
    /\ oLastRun = FALSE
    /\ oWaited = {}
    /\ oWritten = {}
    /\ oSlept = 0
    /\ oRan = 0
    /\ oReport = NoReport
    /\ oLastRunAt = 0
    /\ oGap = 0

\* multi: every script exists, sources are enabled or not and have a delay;
\* reset: no enabled flag and no delay, a script may be missing
OrchInit ==
    /\ oKind \in {"multi", "reset"}
    /\ oCfg \in [1..NumSources -> SourceCfgs]
    /\ \A i \in 1..NumSources :
          IF oKind = "multi"
          THEN oCfg[i].exists
          ELSE oCfg[i].enabled /\ oCfg[i].delay_minutes = 0
    /\ oDry \in BOOLEAN
    /\ oKind = "multi" => ~oDry
    /\ oPc = "idle"
    /\ oIdx = 0
    /\ oElapsed = 0
    /\ oResults = <<>>
    /\ oHow = <<>>
    /\ oInvoked = {}
    /\ oLastRun = FALSE
    /\ oWaited = {}
    /\ oWritten = {}
    /\ oSlept = 0
    /\ oRan = 0
    /\ oReport = NoReport
    /\ oLastRunAt = 0
    /\ oGap = 0

\* what a step inside the source loop leaves alone
orchFixed == <<scrapeVars, shareVars, schedVars, mergeVars, oKind, oCfg, oDry, oLastRun, oReport,
               oLastRunAt, oGap>>

\* run_once / run_all_scrapers begins: start = datetime.now(); results = {}
StartCycle ==
    /\ oPc = "idle"
    /\ oPc' = "call"
    /\ oIdx' = 1
    /\ oResults' = <<>>
    /\ oHow' = <<>>
    /\ oInvoked' = {}
    /\ oElapsed' = 0
    /\ oWaited' = {}
    /\ oWritten' = {}
    /\ oSlept' = 0
    /\ oRan' = 0
    /\ oReport' = NoReport
    /\ oGap' = 0
    /\ oLastRunAt' = 0
    /\ UNCHANGED <<scrapeVars, shareVars, schedVars, mergeVars, oKind, oCfg, oDry, oLastRun>>

\* the per-source call returns value v: the loop records it and goes on
Record(v, how) ==
    /\ oResults' = Append(oResults, v)
    /\ oHow' = Append(oHow, how)
    /\ oElapsed' = 0
    /\ IF oIdx = NumSources
       THEN oPc' = "report" /\ oIdx' = oIdx
       ELSE oPc' = "call" /\ oIdx' = oIdx + 1

\* subprocess.run ended in the way `how`
Finish(how) ==
    LET r == RunResult(how)
    IN IF r.raises
       THEN /\ oPc' = "aborted"
            /\ UNCHANGED <<oIdx, oElapsed, oResults, oHow>>
       ELSE Record(r.value, how)

\* the early returns of the per-source call: a disabled source (True), a
\* missing script (False), a dry run (True)
SkipSource ==
    /\ oPc = "call"
    /\ CASE ~IsEnabled(oKind, oCfg[oIdx]) -> Record(TRUE, "disabled")
         [] oKind = "reset" /\ ~oCfg[oIdx].exists -> Record(FALSE, "missing")
         [] oKind = "reset" /\ oCfg[oIdx].exists /\ oDry -> Record(TRUE, "dry")
         [] OTHER -> FALSE
    /\ UNCHANGED <<orchFixed, oInvoked, oWaited, oWritten, oSlept, oRan>>

\* the source is run: time.sleep(delay * 60) first when it has a delay
CallSource ==
    /\ oPc = "call"
    /\ IsEnabled(oKind, oCfg[oIdx])
    /\ oKind = "reset" => oCfg[oIdx].exists /\ ~oDry
    /\ oPc' = IF oCfg[oIdx].delay_minutes > 0 THEN "wait" ELSE "spawn"
    /\ UNCHANGED <<orchFixed, oIdx, oElapsed, oResults, oHow, oInvoked,
                   oWaited, oWritten, oSlept, oRan>>

\* time.sleep(delay * 60) returns
StaggerWait ==
    /\ oPc = "wait"
    /\ oPc' = "spawn"
    /\ oSlept' = oSlept + oCfg[oIdx].delay_minutes * 60
    /\ oWaited' = oWaited \cup {oIdx}
    /\ UNCHANGED <<orchFixed, oIdx, oElapsed, oResults, oHow, oInvoked,
                   oWritten, oRan>>

\* a start of the child that does not wait for it: the loop goes on to the
\* next source
SpawnNoWait ==
    /\ oPc = "spawn"
    /\ oElapsed' = 0
    /\ oInvoked' = oInvoked \cup {oIdx}
    /\ oWritten' = oWritten \cup SourceFiles(oKind, oIdx)
    /\ IF oIdx = NumSources
       THEN oPc' = "report" /\ oIdx' = oIdx
       ELSE oPc' = "call" /\ oIdx' = oIdx + 1
    /\ UNCHANGED <<orchFixed, oResults, oHow, oWaited, oSlept, oRan>>

\* subprocess.run starts the child, which may write the files of its CONFIG
Spawn ==
    /\ oPc = "spawn"
    /\ oPc' = "child"
    /\ oElapsed' = 0
    /\ oInvoked' = oInvoked \cup {oIdx}
    /\ oWritten' = oWritten \cup SourceFiles(oKind, oIdx)
    /\ UNCHANGED <<orchFixed, oIdx, oResults, oHow, oWaited, oSlept, oRan>>

\* ... or raises (OSError of the fork, KeyError of state_config["script"])
SpawnError ==
    /\ oPc = "spawn"
    /\ oInvoked' = oInvoked \cup {oIdx}
    /\ Finish("error")
    /\ UNCHANGED <<orchFixed, oWaited, oWritten, oSlept, oRan>>

\* the child keeps running
ChildRun ==
    /\ oPc = "child"
    /\ ~TimedOut(oKind, oElapsed)
    /\ oElapsed < MaxChildSeconds
    /\ oElapsed' = oElapsed + ChildStep
    /\ oRan' = oRan + ChildStep
    /\ UNCHANGED <<orchFixed, oPc, oIdx, oResults, oHow, oInvoked, oWaited,
                   oWritten, oSlept>>

\* the child exits: with return code 0 after a run or after it found its
\* source not due, or with another return code
ChildExit ==
    /\ oPc = "child"
    /\ ~TimedOut(oKind, oElapsed)
    /\ \E how \in {"ok", "skipped", "nonzero"} : Finish(how)
    /\ UNCHANGED <<orchFixed, oInvoked, oWaited, oWritten, oSlept, oRan>>

\* the timeout passes: the child is killed and TimeoutExpired is raised
TimeoutExpired ==
    /\ oPc = "child"
    /\ TimedOut(oKind, oElapsed)
    /\ Finish("timeout")
    /\ UNCHANGED <<orchFixed, oInvoked, oWaited, oWritten, oSlept, oRan>>

\* sum(1 for v in results.values() if v)
CountTrue(results) == Cardinality({i \in 1..Len(results) : results[i]})

\* after the loop: self.last_run = datetime.now() (multi), and the summary
\* with total, successful and failed = total - successful
Report ==
    /\ oPc = "report"
    /\ oPc' = "done"
    /\ oLastRun' = (oKind = "multi" \/ oLastRun)
    /\ oLastRunAt' = IF oKind = "multi" THEN oSlept + oRan ELSE oLastRunAt
    /\ oReport' = [total |-> Len(oResults),
                   successful |-> CountTrue(oResults),
                   failed |-> Len(oResults) - CountTrue(oResults)]
    /\ UNCHANGED <<scrapeVars, shareVars, schedVars, mergeVars, oKind, oCfg, oDry, oIdx,
                   oElapsed,
                   oResults, oHow, oInvoked, oWaited, oWritten, oSlept, oRan,
                   oGap>>

\* run_forever of the multi-state scheduler: nxt = self.last_run + interval,
\* time.sleep(nxt - now), then the next cycle; oGap is the time from the
\* start of the cycle that ended to the start of the next
NextCycle ==
    /\ oPc = "done"
    /\ oKind = "multi"
    /\ oLastRun
    /\ oPc' = "idle"
    /\ LET now_ == oSlept + oRan
           nxt == oLastRunAt + run_interval_hours * 3600
           secs == nxt - now_
       IN oGap' = IF secs > 0 THEN now_ + secs ELSE now_
    /\ UNCHANGED <<scrapeVars, shareVars, schedVars, mergeVars, oKind, oCfg, oDry, oIdx,
                   oElapsed,
                   oResults, oHow, oInvoked, oWaited, oWritten, oSlept, oRan,
                   oLastRun, oLastRunAt, oReport>>

\* the steps the orchestrator takes by itself, whatever the child does
OrchProgress ==
    \/ SkipSource
    \/ CallSource
    \/ StaggerWait
    \/ Spawn
    \/ ChildRun
    \/ TimeoutExpired
    \/ Report

OrchNext ==
    \/ StartCycle
    \/ OrchProgress
    \/ SpawnError
    \/ ChildExit
    \/ NextCycle

\* ================================================ sources side by side ===
\* The scheduler scripts run one after another (as the orchestrators run
\* them, each with --once in a process of its own) on the files their
\* CONFIGs name.
\* number of runs
MaxShareRuns == 3

\* CONFIG['data_file'] of each scheduler script
DataFileName(k) ==
    CASE k = "alabama" -> "data/businesses.json"
      [] k = "texas" -> "data/businesses.json"
      [] k = "michigan" -> "data/michigan_businesses.json"
      [] k = "tennessee" -> "data/tennessee_businesses.json"

\* CONFIG['state_file'] of each scheduler script
StateFileName(k) ==
    CASE k = "alabama" -> "data/alabama_scraper_state.json"
      [] k = "texas" -> "data/texas_scraper_state.json"
      [] k = "michigan" -> "data/michigan_scraper_state.json"
      [] k = "tennessee" -> "data/tennessee_scraper_state.json"

DataFiles == {DataFileName(k) : k \in Kinds}
StateFiles == {StateFileName(k) : k \in Kinds}

\* the generation loop with the same draws in every iteration
RECURSIVE GenLoop(_, _, _, _, _, _, _, _)
GenLoop(k, count, s, bizs, n, name, days_ago, t) ==
    IF /\ Len(bizs) < count
       /\ n < count * MaxAttemptsFactor(k)
    THEN LET r == GenIter(k, s, bizs, name, days_ago, t, t)
         IN IF r.raised THEN r
            ELSE GenLoop(k, count, r.st, r.businesses, n + 1, name, days_ago, t)
    ELSE [st |-> s, businesses |-> bizs, raised |-> FALSE]

\* the --interval of a run (type=int: any integer is taken)
IntervalChoices == {run_interval_hours, 0 - run_interval_hours}

\* the --count of a run
CountChoices == {businesses_per_run, businesses_per_run + 1}

\* the entity numbers of a list, in its order
EntityNums(bizs) == [i \in 1..Len(bizs) |-> bizs[i].entity_number]

ShareIdle ==
    /\ sNow = T0
    /\ sData = [f \in DataFiles |-> MissingData]
    /\ sState = [f \in StateFiles |-> MissingFile]
    /\ sWriters = [f \in DataFiles |-> {}]
    /\ sPrevData = [f \in DataFiles |-> MissingData]
    /\ sPrevState = [f \in StateFiles |-> MissingFile]
    /\ sRan = "none"
    /\ sRuns = 0
    /\ sAgg = FALSE
    /\ sProduced = [k \in Kinds |-> <<>>]
    /\ sInterval = run_interval_hours
    /\ sDry = FALSE
    /\ sStarted = {}

ShareInit == ShareIdle

\* `python3 <k>_scheduler.py --once`, uninterrupted: load the state, check
\* that the source is due, generate, merge, save the data file, update and
\* save the state.  An exception ends the process before it writes.  The
\* next run is an hour later.
SourceRun(k) ==
    /\ sRuns < MaxShareRuns
    /\ \E interval \in IntervalChoices, count \in CountChoices,
          name \in GenNames, days_ago \in DaysAgoChoices :
          LET df == DataFileName(k)
              sf == StateFileName(k)
              s0 == LoadState(k, sState[sf])
              due == DueCheckCfg(interval, k, s0, sNow) = "run"
              g == GenLoop(k, count, s0, <<>>, 0, name, days_ago, sNow)
              out == Merge(k, max_total_businesses, LoadExisting(sData[df]),
                           g.businesses, sNow)
              u == StateUpdate(g.st, sNow, Len(g.businesses))
          IN /\ sInterval' = interval
             /\ IF due /\ ~g.raised /\ ~u.raised
                THEN /\ sData' = [sData EXCEPT ![df] = JsonData(out)]
                     /\ sState' = [sState EXCEPT
                                      ![sf] = JsonStateFile(StateToJson(u.st))]
                     /\ sWriters' = [sWriters EXCEPT ![df] = @ \cup {k}]
                     /\ sProduced' = [sProduced EXCEPT
                                         ![k] = @ \o EntityNums(g.businesses)]
                ELSE UNCHANGED <<sData, sState, sWriters, sProduced>>
    /\ sPrevData' = sData
    /\ sPrevState' = sState
    /\ sRan' = k
    /\ sRuns' = sRuns + 1
    /\ sAgg' = FALSE
    /\ sDry' = FALSE
    /\ sStarted' = {k}
    /\ sNow' = sNow + 1
    /\ UNCHANGED <<scrapeVars, schedVars, mergeVars, orchVars>>

\* ------------------------------------------------ the aggregate export ---
\* reset_and_refresh.py: deduplicate_all, then rebuild_main_businesses.
\* os.path.join(DATA_DIR, "businesses.json")
MainFile == "data/businesses.json"

\* sorted(glob("data/*_businesses.json")): the pattern needs an underscore
\* before "businesses", so data/businesses.json is not among them
StateDataFiles ==
    <<"data/michigan_businesses.json", "data/tennessee_businesses.json">>

\* deduplicate_all over the files found; a dry run only logs
DeduplicateAll(dry, data) ==
    [f \in DOMAIN data |->
        IF f \in Range(StateDataFiles) /\ ~dry THEN DeduplicateFile(data[f])
        ELSE data[f]]

\* all_businesses of rebuild_main_businesses: the lists of the files that
\* can be read, in the order of the file names
RECURSIVE AllBusinesses(_, _)
AllBusinesses(data, files) ==
    IF files = <<>> THEN <<>>
    ELSE LoadExisting(data[Head(files)]) \o AllBusinesses(data, Tail(files))

\* a rebuild that writes data/businesses.json also in a dry run
RebuildAlways(dry, data) ==
    IF \A f \in Range(StateDataFiles) : data[f].kind = "missing" THEN data
    ELSE IF AllBusinesses(data, StateDataFiles) = <<>> THEN data
    ELSE [data EXCEPT
             ![MainFile] = JsonData(Unique(AllBusinesses(data, StateDataFiles)))]

\* rebuild_main_businesses: returns early when no state file exists or no
\* record was loaded; it writes data/businesses.json unless it is a dry run
RebuildMainBusinesses(dry, data) ==
    IF \A f \in Range(StateDataFiles) : data[f].kind = "missing" THEN data
    ELSE IF AllBusinesses(data, StateDataFiles) = <<>> THEN data
    ELSE IF dry THEN data
    ELSE [data EXCEPT
             ![MainFile] = JsonData(Unique(AllBusinesses(data, StateDataFiles)))]

\* clear_all_data: every state file and every data file found, and
\* data/businesses.json, is removed, unless it is a dry run
ClearAllData(dry, data, state) ==
    IF dry THEN [data |-> data, state |-> state]
    ELSE [data |-> [f \in DOMAIN data |-> MissingData],
          state |-> [f \in DOMAIN state |-> MissingFile]]

\* run_scraper_once of an existing script: whether subprocess.run is called
StartsChild(dry) == ~dry

\* main of reset_and_refresh with --dry-run: the four steps
DryRun ==
    /\ sRuns < MaxShareRuns
    /\ LET c == ClearAllData(TRUE, sData, sState)
       IN /\ sData' = RebuildMainBusinesses(TRUE, DeduplicateAll(TRUE, c.data))
          /\ sState' = c.state
    /\ sStarted' = {k \in Kinds : StartsChild(TRUE)}
    /\ sDry' = TRUE
    /\ sPrevData' = sData
    /\ sPrevState' = sState
    /\ sRan' = "none"
    /\ sAgg' = FALSE
    /\ sRuns' = sRuns + 1
    /\ UNCHANGED <<scrapeVars, schedVars, mergeVars, orchVars, sNow, sWriters, sProduced,
                   sInterval>>

\* steps 3 and 4 of reset_and_refresh's main (not a dry run)
Aggregate ==
    /\ sRuns < MaxShareRuns
    /\ sDry' = FALSE
    /\ sStarted' = {}
    /\ sData' = RebuildMainBusinesses(FALSE, DeduplicateAll(FALSE, sData))
    /\ sPrevData' = sData
    /\ sPrevState' = sState
    /\ sRan' = "none"
    /\ sAgg' = TRUE
    /\ sRuns' = sRuns + 1
    /\ UNCHANGED <<scrapeVars, schedVars, mergeVars, orchVars, sNow, sState, sWriters,
                   sProduced, sInterval>>

\* ------------------------------------------------------ super_scraper ---
\* super_scraper.main: key = (biz["name"], biz["state"])
NameStateKey(biz) == <<biz.name, biz.state>>

\* load_existing_data: seen = {(x.get("name"), x.get("state")) for x in existing}
SeenOf(existing) == {NameStateKey(x) : x \in Range(existing)}

\* the loops over the scraped records:  if key not in seen
RECURSIVE NewPass(_, _)
NewPass(scraped, seen) ==
    IF scraped = <<>> THEN <<>>
    ELSE LET biz == Head(scraped)
             key == NameStateKey(biz)
         IN IF key \notin seen
            THEN <<biz>> \o NewPass(Tail(scraped), seen \cup {key})
            ELSE NewPass(Tail(scraped), seen)

\* combined = existing + new
Combined(existing, scraped) == existing \o NewPass(scraped, SeenOf(existing))

ShareNext ==
    \/ \E k \in Kinds : SourceRun(k)
    \/ Aggregate
    \/ DryRun

\* ============================================================= scrapers ===
\* ------------------------------------------- safe_get and safe_post ---
MaxRetries == 3

\* what requests.get or requests.post can end with: a response with status
\* 200, 429 or another status, requests.exceptions.Timeout, or another
\* requests.exceptions.RequestException
Answers == {"200", "429", "other_status", "timeout", "request_error"}

\* a call whose except clauses name requests.exceptions.Timeout only
CaughtTimeoutOnly(answer) == answer = "timeout"

\* except requests.exceptions.Timeout, except RequestException
Caught(answer) == answer \in {"timeout", "request_error"}

NetIdle ==
    /\ nPc = "idle"
    /\ nMethod = "get"
    /\ nRetries = 0
    /\ nAttempt = 0
    /\ nAnswers = <<>>
    /\ nSleeps = <<>>
    /\ nReturn = 0
    /\ nEscaped = FALSE

\* safe_get(url, retries=...) or safe_post(url, retries=...) is called
SafeCall(method, retries) ==
    /\ nPc \in {"idle", "done"}
    /\ nPc' = "loop"
    /\ nMethod' = method
    /\ nRetries' = retries
    /\ nAttempt' = 0
    /\ nAnswers' = <<>>
    /\ nSleeps' = <<>>
    /\ nReturn' = 0
    /\ nEscaped' = FALSE
    /\ UNCHANGED <<schedVars, mergeVars, orchVars, shareVars, superVars>>

\* one pass of `for attempt in range(retries)`: the request, its answer, the
\* sleep on status 429 and the sleep before the next attempt
Attempt(answer) ==
    /\ nPc = "loop"
    /\ nAttempt < nRetries
    /\ nAnswers' = Append(nAnswers, answer)
    /\ IF answer = "200"
       THEN /\ nPc' = "done"
            /\ nReturn' = nAttempt + 1
            /\ UNCHANGED <<nAttempt, nSleeps, nEscaped>>
       ELSE IF answer \in {"timeout", "request_error"} /\ ~Caught(answer)
       THEN /\ nPc' = "done"
            /\ nEscaped' = TRUE
            /\ UNCHANGED <<nAttempt, nSleeps, nReturn>>
       ELSE /\ nPc' = "loop"
            /\ nAttempt' = nAttempt + 1
            /\ nSleeps' = nSleeps
                   \o (IF answer = "429" THEN <<"rate_limited">> ELSE <<>>)
                   \o (IF nAttempt < nRetries - 1 THEN <<"retry">> ELSE <<>>)
            /\ UNCHANGED <<nReturn, nEscaped>>
    /\ UNCHANGED <<nMethod, nRetries>>
    /\ UNCHANGED <<schedVars, mergeVars, orchVars, shareVars, superVars>>

\* the loop is over: "All retries failed", return None
AllRetriesFailed ==
    /\ nPc = "loop"
    /\ nAttempt >= nRetries
    /\ nPc' = "done"
    /\ nReturn' = 0
    /\ UNCHANGED <<nMethod, nRetries, nAttempt, nAnswers, nSleeps, nEscaped>>
    /\ UNCHANGED <<schedVars, mergeVars, orchVars, shareVars, superVars>>

NetNext ==
    \/ \E method \in {"get", "post"}, retries \in 0..MaxRetries :
           SafeCall(method, retries)
    \/ \E answer \in Answers : Attempt(answer)
    \/ AllRetriesFailed

\* ------------------------------------------------------ super_scraper ---
STATES ==
    <<"alabama", "alaska", "arizona", "arkansas", "california",
      "colorado", "connecticut", "delaware", "florida", "georgia",
      "hawaii", "idaho", "illinois", "indiana", "iowa", "kansas",
      "kentucky", "louisiana", "maine", "maryland", "massachusetts",
      "michigan", "minnesota", "mississippi", "missouri", "montana",
      "nebraska", "nevada", "new_hampshire", "new_jersey", "new_mexico",
      "new_york", "north_carolina", "north_dakota", "ohio", "oklahoma",
      "oregon", "pennsylvania", "rhode_island", "south_carolina",
      "south_dakota", "tennessee", "texas", "utah", "vermont",
      "virginia", "washington", "west_virginia", "wisconsin", "wyoming">>

PRIORITY_STATES ==
    <<"florida", "california", "delaware", "texas", "new_york", "nevada",
      "wyoming">>

\* remaining_states = [s for s in STATES if s not in PRIORITY_STATES]
remaining_states ==
    SelectSeq(STATES, LAMBDA x : x \notin Range(PRIORITY_STATES))

\* the states in the order main processes them
ProcessOrder == PRIORITY_STATES \o remaining_states

\* the most records one state module returns
MaxFound == 2

\* how scrape_state can end: mod.scrape() returned a list, the import
\* raised ModuleNotFoundError, AttributeError was raised, or another
\* exception was
Endings == {"returned", "module_not_found", "attribute_error", "exception"}

\* len(scrape_state(state)): the list of the module, or [] of an except clause
ScrapeState(how, n) == IF how = "returned" THEN n ELSE 0

SuperIdle ==
    /\ uPc = "idle"
    /\ uIdx = 0
    /\ uStats = [total_states |-> Len(STATES), successful_states |-> 0,
                 failed_states |-> 0, skipped_states |-> 0]
    /\ uFound = 0
    /\ uHow = "none"
    /\ uRaised = 0

\* main up to the loops: the stats start at zero
SuperStart ==
    /\ uPc \in {"idle", "done"}
    /\ uPc' = "loop"
    /\ uIdx' = 0
    /\ uStats' = [total_states |-> Len(STATES), successful_states |-> 0,
                  failed_states |-> 0, skipped_states |-> 0]
    /\ uFound' = 0
    /\ uHow' = "none"
    /\ uRaised' = 0
    /\ UNCHANGED <<schedVars, mergeVars, orchVars, shareVars, netVars>>

\* one pass of either loop of main: scrape_state, then the counters
ScrapeOne(how, n) ==
    /\ uPc = "loop"
    /\ uIdx < Len(ProcessOrder)
    /\ LET found == ScrapeState(how, n)
       IN /\ uFound' = found
          /\ uStats' =
                 IF found > 0
                 THEN [uStats EXCEPT !.successful_states = @ + 1]
                 ELSE [uStats EXCEPT !.skipped_states = @ + 1]
    /\ uHow' = how
    /\ uRaised' = IF how \in {"attribute_error", "exception"}
                  THEN uRaised + 1 ELSE uRaised
    /\ uIdx' = uIdx + 1
    /\ uPc' = "loop"
    /\ UNCHANGED <<schedVars, mergeVars, orchVars, shareVars, netVars>>

\* "Calculate final statistics": failed is what the other two leave
SuperFinish ==
    /\ uPc = "loop"
    /\ uIdx = Len(ProcessOrder)
    /\ uStats' = [uStats EXCEPT !.failed_states =
                      uStats.total_states - uStats.successful_states
                          - uStats.skipped_states]
    /\ uPc' = "done"
    /\ UNCHANGED <<uIdx, uFound, uHow, uRaised>>
    /\ UNCHANGED <<schedVars, mergeVars, orchVars, shareVars, netVars>>

SuperNext ==
    \/ SuperStart
    \/ \E how \in Endings, n \in 0..MaxFound : ScrapeOne(how, n)
    \/ SuperFinish

ScrapeIdle == NetIdle /\ SuperIdle

\* ======================================================= specifications ===
vars == <<schedVars, mergeVars, orchVars, shareVars, scrapeVars>>

\* a scheduler process with its files, crashes and I/O errors included
Init == SchedInit /\ MergeIdle /\ OrchIdle /\ ShareIdle /\ ScrapeIdle
Next == SchedNext
Spec == Init /\ [][Next]_vars

\* the sleep of a process that is to wake beyond the horizon of the clock
HorizonWake ==
    /\ pc = "sleep"
    /\ now = MaxNow
    /\ now < wake
    /\ pc' = "run_once"
    /\ wake' = 0
    /\ UNCHANGED <<notSched, lastWrite, earlyRuns, kind, now, disk, mode, st, locals,
                   outcome, errAt, pre,
                   wrote, loaded>>

\* a scheduler whose process is not killed and whose storage operations
\* succeed, under fair scheduling
FairNext ==
    \/ \E m \in {"once", "forever"} : Start(m)
    \/ RunOnceBegin
    \/ GenStep
    \/ LoadMerge
    \/ SaveOpen
    \/ SaveWrite
    \/ UpdateState
    \/ StateOpen
    \/ StateWrite
    \/ AfterRun
    \/ Wake
    \/ HorizonWake
    \/ Exit
    \/ Tick
FairSpec == Init /\ [][FairNext]_vars /\ WF_vars(FairNext)

\* a merge applied to two lists
MergeSpecInit ==
    SchedIdle /\ MergeInit /\ OrchIdle /\ ShareIdle /\ ScrapeIdle
MergeSpec == MergeSpecInit /\ [][MergeNext]_vars

\* an orchestrator and its children
OrchSpecInit ==
    SchedIdle /\ MergeIdle /\ OrchInit /\ ShareIdle /\ ScrapeIdle
OrchSpec == OrchSpecInit /\ [][OrchNext]_vars
OrchFairSpec == OrchSpec /\ WF_vars(OrchProgress)

\* the scheduler scripts run one after another
ShareSpecInit ==
    SchedIdle /\ MergeIdle /\ OrchIdle /\ ShareInit /\ ScrapeIdle
ShareSpec == ShareSpecInit /\ [][ShareNext]_vars

\* nothing has been called yet
IdleInit == SchedIdle /\ MergeIdle /\ OrchIdle /\ ShareIdle /\ ScrapeIdle

\* calls of safe_get and safe_post
NetSpec == IdleInit /\ [][NetNext]_vars

\* runs of super_scraper.main
SuperSpec == IdleInit /\ [][SuperNext]_vars

\* =============================================================== claims ===
AfterRunOnce == pc \in {"exit", "after"}
AllWrites == {"data_open", "data", "state_open", "state"}
OSErrors == {"oserror_data", "oserror_state"}

\* C1: whatever runs, crashes and restarts happened, the data file a scheduler
\* has written holds no two records with the same entity_number.
C1_NoDuplicateKeys ==
    dataFile.kind = "json" => NoDupKeys(dataFile.recs)

\* a run has completed whose new record had the key of a record already in the
\* file (the run before it died between the two writes)
C1_Witness ==
    /\ AfterRunOnce /\ outcome = "ok"
    /\ dataFile.kind = "json" /\ Len(dataFile.recs) >= 1
    /\ pre.data.kind = "json"
    /\ \E i \in 1..Len(businesses) :
          businesses[i].entity_number \in Keys(pre.data.recs)

\* C5: after a crash during run_once, the data file and the state file are
\* both as they were before the run, or both as a completed run leaves them.
C5_CrashAtomic ==
    (outcome = "crashed" /\ pre # NoPre) =>
        \/ (dataFile = pre.data /\ stateFile = pre.state)
        \/ wrote = AllWrites

\* C6: a run_once that starts when last_run is set and less than the interval
\* ago produces no record, writes no file and ends as skipped.
C6_SkipWhenNotDue ==
    (pc # "off" /\ pre # NoPre /\ ~pre.due) =>
        /\ outcome = "skipped"
        /\ businesses = <<>>
        /\ wrote = {}

\* C7: a scheduler constructed over a missing, unparseable or incomplete state
\* file has the zero-value state, and its first run_once runs the source and
\* does not raise.
C7_LoadZeroValue ==
    loaded \in {"missing", "corrupt", "lacking"} =>
        /\ (pc = "run_once" => st = DefaultState)
        /\ outcome # "skipped"
        /\ (outcome = "error" => errAt \in OSErrors)

\* C8: the state a scheduler has just saved is the state a new process loads.
C8_RoundTrip ==
    (AfterRunOnce /\ outcome = "ok") => LoadState(kind, stateFile) = st

\* C10: when the generation fails (it raises, or the process is killed while
\* it generates), self.state and the state file are as before the run, and so
\* is the answer of the due-check.
C10_FailedProductionKeepsState ==
    /\ (pc # "off" /\ outcome = "error" /\ errAt = "generate") =>
          /\ st = pre.mem
          /\ stateFile = pre.state
          /\ DueCheck(kind, st, now) = DueCheck(kind, pre.mem, now)
    /\ (outcome = "crashed" /\ errAt = "gen") =>
          /\ stateFile = pre.state
          /\ LoadState(kind, stateFile) = LoadState(kind, pre.state)

\* the generation of a run_forever loop has raised on a state that an earlier
\* run saved
C10_Witness ==
    /\ pc = "sleep" /\ outcome = "error" /\ errAt = "generate"
    /\ pre.mem.run_count > 0
    /\ pre.state.kind = "json"

\* a > b for two ISO timestamp strings
Later(a, b) == a[1] > b[1] \/ (a[1] = b[1] /\ a[2] > b[2])

\* C2: of two input records of a merge that share an entity_number and differ
\* in scraped_at, the output holds the later scraped one and not the other
\* (where neither the cap nor the window removes the key).
C2_FreshestWins ==
    mDone =>
        LET all == mExisting \o mIncoming
        IN \A i, j \in 1..Len(all) :
              (/\ all[i].entity_number # NoKey
               /\ all[i].entity_number = all[j].entity_number
               /\ Later(all[i].scraped_at, all[j].scraped_at)) =>
                  /\ all[j] \notin Range(mOut)
                  /\ (mCap = 0 /\ ~Windowed(mKind)) =>
                        \E r \in Range(mOut) :
                           /\ r.entity_number = all[i].entity_number
                           /\ ~Later(all[i].scraped_at, r.scraped_at)

Faults == {"nonzero", "timeout", "error"}

\* C3: in an orchestrator cycle no exception leaves the per-source call; a
\* source whose run raised, exited non-zero or timed out is recorded as
\* failed, no other source of the multi-state scheduler is, and when the
\* cycle reports every source has its entry and every enabled source with a
\* script has been invoked.
C3_FailureIsolated ==
    /\ oPc # "aborted"
    /\ Len(oResults) = Len(oHow)
    /\ \A i \in 1..Len(oResults) :
          /\ oHow[i] \in Faults => ~oResults[i]
          /\ ~oResults[i] => oHow[i] \in Faults \cup {"missing"}
          /\ oKind = "multi" => oHow[i] # "missing"
    /\ oPc \in {"report", "done"} =>
          /\ Len(oResults) = NumSources
          /\ \A i \in 1..NumSources :
                (oCfg[i].enabled /\ oCfg[i].exists /\ ~oDry) => i \in oInvoked

\* a cycle of the multi-state scheduler reports: a source timed out, and a
\* source after it was run and is recorded Ok
C3_Witness ==
    /\ oKind = "multi"
    /\ oPc = "report"
    /\ \E i, j \in 1..Len(oHow) :
          /\ i < j
          /\ oHow[i] = "timeout" /\ ~oResults[i]
          /\ oHow[j] = "ok" /\ oResults[j] /\ j \in oInvoked

\* C4: every orchestrator cycle that has started reaches its report,
\* whatever the children do (a child may never exit).
C4_CycleTerminates == (oPc \in {"call", "wait", "spawn", "child"}) ~> (oPc = "done")

\* a cycle has ended in which a child ran until its timeout
C4_Witness ==
    /\ oPc = "done"
    /\ \E i \in 1..Len(oHow) : oHow[i] = "timeout"

\* C9: a run_once that starts while the source is due leads to a successful
\* run (data and state written by that process), when the process is not
\* killed and the storage operations succeed.
C9_DueRunSucceeds ==
    (pc = "run_once" /\ ~NotDue(st, now)) ~> (AfterRunOnce /\ outcome = "ok")

\* the scheduling metadata of a run state
Meta(s) == <<s.keys, s.last_run, s.run_count, s.total_businesses_generated>>

\* C11: when saving the run state fails after the data file was written, the
\* scheduling metadata is as before the run, in memory and on disk, and a
\* source that was due is still due.
C11_SaveFailureKeepsMetadata ==
    (pc # "off" /\ outcome = "error" /\ errAt = "oserror_state") =>
        /\ "data" \in wrote
        /\ stateFile = pre.state
        /\ Meta(st) = Meta(pre.mem)
        /\ pre.due => ~NotDue(st, now)

\* the cutoff of a windowed merge at time t
Cutoff(t) == DateStr(t) - WindowDays

\* C12: after any sequence of merges of a windowed scheduler no record of
\* the output has a registration_date before the cutoff, now minus 30 days.
C12_WindowMonotone ==
    (mDone /\ Windowed(mKind)) =>
        \A r \in Range(mOut) : r.registration_date >= Cutoff(mNow)

\* a second merge, with empty incoming, has dropped a record that the first
\* merge kept on the day of its cutoff
C12_Witness ==
    /\ mDone /\ Windowed(mKind) /\ mRound = 2
    /\ mIncoming = <<>>
    /\ \E r \in Range(mExisting) :
          /\ r.registration_date = Cutoff(mNow - TicksPerDay)
          /\ r \notin Range(mOut)
    /\ mOut # <<>>

\* C13: in a windowed merge, when the record observed last among the input
\* records of a key has a registration_date before the cutoff, the output has
\* no record of that key.
C13_WindowAfterDedup ==
    (mDone /\ Windowed(mKind)) =>
        LET all == mExisting \o mIncoming
        IN \A i \in 1..Len(all) :
              (/\ all[i].entity_number # NoKey
               /\ all[i].registration_date < Cutoff(mNow)
               /\ \A j \in 1..Len(all) :
                     (j # i /\ all[j].entity_number = all[i].entity_number) =>
                        Later(all[i].scraped_at, all[j].scraped_at)) =>
                  \A r \in Range(mOut) : r.entity_number # all[i].entity_number

\* C14: a merge with a maximum size configured returns at most that many
\* records, and no deduplicated candidate it leaves out has a later
\* registration_date than one it returns.
C14_CapRespected ==
    (mDone /\ mCap # 0) =>
        LET cands == Range(DedupPass(mExisting \o mIncoming, {}))
        IN /\ Len(mOut) <= mCap
           /\ Range(mOut) \subseteq cands
           /\ \A c \in cands \ Range(mOut), r \in Range(mOut) :
                 c.registration_date <= r.registration_date

\* C15: merging a list with itself gives the output of merging it with the
\* empty list, for every scheduler and cap.
C15_MergeIdempotent ==
    (mDone /\ mIncoming = mExisting) =>
        mOut = Merge(mKind, mCap, mExisting, <<>>, mNow)

\* two records with different keys have been merged with themselves, and the
\* window or the cap has removed one of them
C15_Witness ==
    /\ mDone /\ mIncoming = mExisting
    /\ Len(mExisting) = 2
    /\ mExisting[1].entity_number # NoKey
    /\ mExisting[2].entity_number # NoKey
    /\ mExisting[1].entity_number # mExisting[2].entity_number
    /\ Len(mOut) = 1

\* C16: a source disabled in the configuration of the multi-state scheduler
\* gets no stagger wait and no invocation, none of its files is written in
\* the cycle, and its call returns at once.
C16_DisabledUntouched ==
    \A i \in DOMAIN oCfg :
        (oKind = "multi" /\ ~oCfg[i].enabled) =>
            /\ i \notin oWaited
            /\ i \notin oInvoked
            /\ SourceFiles(oKind, i) \cap oWritten = {}
            /\ ~(oIdx = i /\ oPc \in {"wait", "spawn", "child"})
            /\ i <= Len(oHow) => oHow[i] = "disabled"

\* a cycle reports in which a disabled source with a delay was passed and
\* another source was waited for and invoked
C16_Witness ==
    /\ oKind = "multi" /\ oPc = "report"
    /\ \E i, j \in DOMAIN oCfg :
          /\ ~oCfg[i].enabled /\ oCfg[i].delay_minutes > 0
          /\ oHow[i] = "disabled"
          /\ i < j /\ j \in oWaited /\ j \in oInvoked

\* the number of sources whose call ended in one of the ways `hows`
CountHow(hows) == Cardinality({i \in 1..Len(oHow) : oHow[i] \in hows})

\* C17: the counts of the cycle report of the multi-state scheduler are the
\* numbers of sources that ran Ok and that failed; disabled sources and
\* sources that were not due are not among the Ok ones.
C17_ReportCounts ==
    (oKind = "multi" /\ oPc = "done") =>
        /\ oReport.total = NumSources
        /\ oReport.successful = CountHow({"ok"})
        /\ oReport.failed = CountHow(Faults)

RECURSIVE MaxDelay(_)
\* the largest delay, in seconds, of the enabled sources 1..n
MaxDelay(n) ==
    IF n = 0 THEN 0
    ELSE LET d == IF oCfg[n].enabled THEN oCfg[n].delay_minutes * 60 ELSE 0
             m == MaxDelay(n - 1)
         IN IF d > m THEN d ELSE m

\* C18: when no child has taken time, a source of the multi-state scheduler
\* is invoked when the largest offset up to it has elapsed since the start of
\* the cycle, and the waiting of a whole cycle is the largest offset.
C18_StaggerOffsets ==
    oKind = "multi" =>
        /\ (oPc = "child" /\ oRan = 0) => oSlept = MaxDelay(oIdx)
        /\ oPc = "report" => oSlept = MaxDelay(NumSources)

\* C19: the next cycle of run_forever starts one interval after the start of
\* the cycle before it, when that cycle was shorter than the interval.
C19_CycleInterval ==
    (/\ oPc = "idle" /\ oGap # 0
     /\ oSlept + oRan < run_interval_hours * 3600) =>
        oGap = run_interval_hours * 3600

\* the records of a list that another source than k produced
OthersOf(recs, k) == SelectSeq(recs, LAMBDA b : b.state # StateCode(k))

\* C20: every data file is written by one scheduler only, and a run of a
\* scheduler leaves the records of the other sources (which, and in which
\* order) and the state files of the other sources as they were.
C20_NoSharedState ==
    /\ \A f \in DataFiles : Cardinality(sWriters[f]) <= 1
    /\ sRan # "none" =>
          /\ \A f \in DataFiles :
                OthersOf(sData[f].recs, sRan) = OthersOf(sPrevData[f].recs, sRan)
          /\ \A f \in StateFiles \ {StateFileName(sRan)} :
                sState[f] = sPrevState[f]

\* C21: the aggregate export (deduplicate_all, then rebuild_main_businesses)
\* leaves every file that is the data_file of a scheduler as it was.
C21_AggregateOnlyReads ==
    sAgg => \A f \in DataFiles : sData[f] = sPrevData[f]

SameInMerge(a, b) == a.entity_number # NoKey /\ a.entity_number = b.entity_number
SameInAggregate(a, b) == Truthy(AnyKey(a)) /\ AnyKey(a) = AnyKey(b)
SameInSuper(a, b) == NameStateKey(a) = NameStateKey(b)

\* C23: the scheduler merge (without cap and window), deduplicate_file /
\* rebuild_main_businesses and super_scraper.main take the same pairs of
\* records for the same entity and retain the same records of an input.
C23_OneKeyPolicy ==
    (mDone /\ ~Windowed(mKind) /\ mCap = 0) =>
        LET all == mExisting \o mIncoming
        IN /\ \A a, b \in Range(all) :
                 /\ SameInMerge(a, b) <=> SameInAggregate(a, b)
                 /\ SameInMerge(a, b) <=> SameInSuper(a, b)
           /\ Range(mOut) = Range(Unique(all))
           /\ Range(mOut) = Range(Combined(mExisting, mIncoming))

\* C24: while a scheduler process runs over a data file that held a complete
\* set, a reader of the file (_load_existing of another process, the loop of
\* rebuild_main_businesses) finds a parseable file that holds the set of
\* before the run or the set the run has written.
C24_ReaderSeesWholeSet ==
    (pc # "off" /\ pre # NoPre /\ pre.data.kind = "json") =>
        /\ dataFile.kind = "json"
        /\ \/ LoadExisting(dataFile) = pre.data.recs
           \/ ("data" \in wrote /\ LoadExisting(dataFile) = merged)

\* C25: the key of the scheduler merge is entity_number, else business_id,
\* else the name: a merge without cap and window returns, for every input
\* record, a record with that record's key, also when the record has no
\* entity_number.
C25_KeyTotal ==
    (mDone /\ ~Windowed(mKind) /\ mCap = 0) =>
        \A r \in Range(mExisting \o mIncoming) :
            /\ Truthy(AnyKey(r))
            /\ \E q \in Range(mOut) : AnyKey(q) = AnyKey(r)

\* C26: every record a merge returns is, in all its fields, a record of
\* existing or of incoming.
C26_MergeSelectsOnly ==
    mDone => Range(mOut) \subseteq Range(mExisting) \cup Range(mIncoming)

\* a merge has returned two records in another order than they came in, one
\* of existing only and one of incoming only
C26_Witness ==
    /\ mDone /\ Len(mOut) = 2
    /\ mOut[1] \in Range(mIncoming) \ Range(mExisting)
    /\ mOut[2] \in Range(mExisting) \ Range(mIncoming)

\* run_count and total_businesses_generated as a new process loads them
Counters(sf) ==
    <<LoadState(kind, sf).run_count,
      LoadState(kind, sf).total_businesses_generated>>

\* C27: a successful run raises the persisted run_count by 1 and the
\* persisted total_businesses_generated by the number of records it
\* produced; a run that was skipped, raised or was killed leaves both as
\* they were (so that neither ever decreases).
C27_CountersMonotone ==
    /\ (AfterRunOnce /\ outcome = "ok") =>
          /\ Counters(stateFile)[1] = Counters(pre.state)[1] + 1
          /\ Counters(stateFile)[2] = Counters(pre.state)[2] + Len(businesses)
    /\ (pre # NoPre /\ outcome \in {"skipped", "error", "crashed"}) =>
          Counters(stateFile) = Counters(pre.state)

\* C28: over the successful runs of a scheduler, each in a process of its
\* own, no entity_number is given to two produced records, of one run or of
\* two.
C28_EntityNumbersUnique ==
    \A k \in Kinds :
        \A i, j \in 1..Len(sProduced[k]) :
            sProduced[k][i] = sProduced[k][j] => i = j

\* a scheduler has made a run of two records and, in a later process, a run
\* whose state file the earlier run wrote
C28_Witness ==
    \E k \in Kinds :
        /\ Len(sProduced[k]) >= 3
        /\ sState[StateFileName(k)].kind = "json"
        /\ sState[StateFileName(k)].val.run_count >= 2
        /\ sState[StateFileName(k)].val.total_businesses_generated =
              Len(sProduced[k])

\* C29: after a successful run of a scheduler, the business_ids of its state
\* file are ids of records of its data file only, so that they are no more
\* than the records of the file and no more than max_total_businesses.
C29_FingerprintsPruned ==
    (sRan # "none" /\ sState[StateFileName(sRan)] # sPrevState[StateFileName(sRan)]) =>
        LET ids == sState[StateFileName(sRan)].val.business_ids
            recs == sData[DataFileName(sRan)].recs
        IN /\ ids \subseteq {r.business_id : r \in Range(recs)}
           /\ Cardinality(ids) <= Len(recs)
           /\ Cardinality(ids) <= max_total_businesses

\* C30: no run_once and no due-check of a scheduler is executed under a
\* negative run_interval_hours: a process started with one has ended before.
C30_InvalidConfigRejected ==
    sRan # "none" => sInterval >= 0

\* C31: a KeyboardInterrupt delivered while run_forever of a scheduler sleeps
\* ends the process: no run_once follows in it, and the data file and the
\* state file are as they were.
C31_InterruptStopsCleanly ==
    [][(pc = "sleep" /\ outcome' = "interrupted") =>
          (pc' = "off" /\ UNCHANGED <<dataFile, stateFile>>)]_vars

\* a run_forever process was interrupted in its sleep after a run that wrote
\* both files
C31_Witness ==
    /\ pc = "off" /\ outcome = "interrupted" /\ errAt = "sleep"
    /\ wrote = AllWrites
    /\ dataFile.kind = "json" /\ stateFile.kind = "json"

\* the ways a call that started a child can end
Ended == {"ok", "skipped", "nonzero", "timeout", "error"}

\* C32: in a cycle the sources are invoked in the order of the
\* configuration, one at a time: while the loop is at a source, every source
\* before it has its result, every child started before has ended, and no
\* source after it has been invoked.
C32_SerialInOrder ==
    oPc \in {"call", "wait", "spawn", "child"} =>
        /\ Len(oHow) = oIdx - 1
        /\ oInvoked \subseteq 1..oIdx
        /\ \A i \in oInvoked : i < oIdx => oHow[i] \in Ended
        /\ oPc # "child" => oIdx \notin oInvoked

\* the child of the third source runs after the child of the first was
\* killed on its timeout and the child of the second exited non-zero
C32_Witness ==
    /\ oPc = "child" /\ oIdx = 3
    /\ oInvoked = {1, 2, 3}
    /\ oHow[1] = "timeout" /\ oHow[2] = "nonzero"

\* the scripts a cycle has started
InvokedScripts == {ScriptOf(oKind, i) : i \in oInvoked}

\* C33: a cycle of the multi-state scheduler under the default
\* configuration (every source enabled) has invoked the scripts of its
\* configuration, which are the 50 scripts of STATE_SCHEDULERS.
C33_AllFiftyStates ==
    (/\ oKind = "multi" /\ oPc = "done"
     /\ \A i \in 1..NumSources : oCfg[i].enabled) =>
        /\ InvokedScripts = {ConfigScripts[i] : i \in 1..NumSources}
        /\ Len(ConfigScripts) = 50
        /\ Range(ConfigScripts) = Range(STATE_SCHEDULERS)

\* C34: reset_and_refresh --dry-run leaves every data file and every state
\* file as it was and starts no scheduler script.
C34_DryRunChangesNothing ==
    sDry =>
        /\ sData = sPrevData
        /\ sState = sPrevState
        /\ sStarted = {}

\* a dry run over files that a real run would have deleted, and over source
\* files whose aggregate a real run would have written
C34_Witness ==
    /\ sDry
    /\ \E f \in StateFiles : sState[f].kind = "json"
    /\ AllBusinesses(sData, StateDataFiles) # <<>>
    /\ RebuildMainBusinesses(FALSE, sData) # sData

\* the records of a list that have the key of r
WithKey(recs, r) == {i \in 1..Len(recs) : AnyKey(recs[i]) = AnyKey(r)}

\* whether a list holds, for the key of every record of `all`, one record,
\* and that one scraped not before any record of `all` with the key
OneFreshestPerKey(kept, all) ==
    \A r \in Range(all) :
        /\ Cardinality(WithKey(kept, r)) = 1
        /\ \A i \in WithKey(kept, r) :
              /\ kept[i] \in Range(all)
              /\ \A j \in WithKey(all, r) :
                    ~IsoBefore(kept[i].scraped_at, all[j].scraped_at)

\* C35: deduplicate_file and rebuild_main_businesses keep one record for
\* each key of their input, the one with the greatest scraped_at.
C35_DedupKeepsFreshest ==
    mDone =>
        /\ OneFreshestPerKey(mDedup.recs, mExisting \o mIncoming)
        /\ OneFreshestPerKey(mMain, mExisting \o mIncoming)

\* two records with one key, the one scraped first first in the file: the
\* one scraped last is the one that is kept
C35_Witness ==
    /\ mDone
    /\ Len(mExisting) = 1 /\ Len(mIncoming) = 1
    /\ AnyKey(mExisting[1]) = AnyKey(mIncoming[1])
    /\ IsoBefore(mExisting[1].scraped_at, mIncoming[1].scraped_at)
    /\ mDedup = JsonData(mIncoming)
    /\ mMain = mIncoming

\* C36: safe_get and safe_post issue at most `retries` requests, return the
\* response of the first request answered with status 200 and issue none
\* after it, return None exactly when no request was answered with 200, and
\* let no exception of a request out.
C36_SafeRequestBounded ==
    /\ Len(nAnswers) <= nRetries
    /\ ~nEscaped
    /\ \A i \in 1..Len(nAnswers) :
           nAnswers[i] = "200" => i = Len(nAnswers) /\ nPc = "done"
    /\ nPc = "done" =>
           /\ (nReturn = 0) <=> (\A i \in 1..Len(nAnswers) : nAnswers[i] # "200")
           /\ nReturn > 0 =>
                  /\ nReturn = Len(nAnswers)
                  /\ nAnswers[nReturn] = "200"

\* a call that got its response at the second request, after a request error
C36_Witness ==
    /\ nPc = "done"
    /\ nRetries = MaxRetries
    /\ nAnswers = <<"request_error", "200">>
    /\ nReturn = 2

\* C39: in the final statistics of super_scraper.main the three state
\* counters add up to total_states (each state is counted in one of them)
\* and failed_states is the number of states whose scrape raised an error
\* other than a missing module.
C39_FailedCountsErrors ==
    uPc = "done" =>
        /\ uStats.successful_states + uStats.skipped_states
               + uStats.failed_states = uStats.total_states
        /\ uStats.failed_states = uRaised

\* C38: in run_forever, two consecutive runs of a process that write the
\* data file do so at least run_interval_hours apart, also when the first
\* of them ended with an error and the loop slept one hour.
C38_WritesIntervalApart ==
    [][(mode = "forever" /\ lastWrite # 0 /\ lastWrite' # lastWrite
            /\ lastWrite' # 0)
        => lastWrite' - lastWrite >= run_interval_hours]_vars

\* whether the merge of scheduler k may leave r out of the list recs: r is
\* older than the window, or recs is at the cap with no record older than r
Evictable(k, r, recs, t) ==
    IF Windowed(k)
    THEN r.registration_date < DateStr(t) - WindowDays
    ELSE /\ Len(recs) = max_total_businesses
         /\ \A j \in 1..Len(recs) :
                recs[j].registration_date >= r.registration_date

\* C37: every record a successful run has produced is in the data file the
\* run has written, unless it is outside the window or beyond the cap; also
\* when the state file was lost or not saved while the data file was kept.
C37_ProducedRecordsKept ==
    (AfterRunOnce /\ outcome = "ok" /\ dataFile.kind = "json") =>
        \A i \in 1..Len(businesses) :
            \/ businesses[i] \in Range(dataFile.recs)
            \/ Evictable(kind, businesses[i], dataFile.recs, now)

====
